---- MODULE Spec2Model ----
(***************************************************************************)
(* Model of the client-side scripts of the portfolio site:                 *)
(*   js/preloader.js        the page-transition overlay controller         *)
(*   js/analyze-webflow.js  the Proxy that instruments window.Webflow      *)
(* Strings whose prefix the code inspects are sequences of one-character   *)
(* strings, so that startsWith is computed and not assumed.                *)
(***************************************************************************)
EXTENDS Integers, Sequences, FiniteSets, TLC

VARIABLES
    phase,           \* "loading" (before DOMContentLoaded), "ready", "unloaded"
    overlayPresent,  \* querySelector('.transition-preloader') found an element
    overlayActive,   \* the overlay's classList contains 'active'
    registered,      \* ids of the anchors that carry the click listener
    loadListener,    \* the window 'load' listener has been added
    timers,          \* pending setTimeout callbacks, in scheduling order
    nextTimerId,     \* id the next setTimeout call returns
    now,             \* milliseconds since the page started
    navLog,          \* assignments of window.location.href made by timer callbacks
    pendingNav,      \* <<href>> while a document-replacing navigation is in flight
    committed,       \* <<href>> the navigation the page was unloaded for
    errors,          \* handlers that raised an uncaught TypeError
    lastEvent,       \* the event dispatched most recently and what its dispatch did
    propertyAccess,  \* usageData.propertyAccess
    functionCalls,   \* own properties of usageData.functionCalls
    callsMade,       \* calls made through the proxy
    lastProxy,       \* the most recent operation on the proxy and its outcome
    webflowUsageData \* window.webflowUsageData.summary

vars == <<phase, overlayPresent, overlayActive, registered, loadListener, timers,
          nextTimerId, now, navLog, pendingNav, committed, errors, lastEvent,
          propertyAccess, functionCalls, callsMade, lastProxy, webflowUsageData>>

pageVars == <<phase, overlayPresent, overlayActive, registered, loadListener, timers,
              nextTimerId, now, navLog, pendingNav, committed, errors, lastEvent>>

proxyVars == <<propertyAccess, functionCalls, callsMade, lastProxy, webflowUsageData>>

----------------------------------------------------------------------------
(* Bounds of the model *)

MaxClicks == 2      \* intercepted clicks (timers scheduled) per page
TickStep == 250     \* milliseconds one step of the clock advances
MaxTime == 750      \* the clock stops here
MaxCalls == 2       \* calls made through the proxy

(* setTimeout(..., 500) *)
Delay == 500

----------------------------------------------------------------------------
(* Strings *)

Str_slash == <<"/">>
Str_dotslash == <<".", "/">>
Str_dotdotslash == <<".", ".", "/">>
Str_http == <<"h", "t", "t", "p">>
Str_hash == <<"#">>
Str_mailto == <<"m", "a", "i", "l", "t", "o", ":">>

Href_about == <<"/", "a", "b", "o", "u", "t">>
Href_x == <<".", "/", "x", ".", "h", "t", "m", "l">>
Href_y == <<".", ".", "/", "y">>
Href_empty == <<>>
Href_mail == <<"m", "a", "i", "l", "t", "o", ":", "a", "@", "b", ".", "c", "o", "m">>
Href_section == <<"#", "s", "e", "c", "t", "i", "o", "n">>
Href_example == <<"h", "t", "t", "p", "s", ":", "/", "/", "e", "x", "a", "m", "p", "l", "e", ".", "c", "o", "m">>
Href_httpdocs == <<"h", "t", "t", "p", "d", "o", "c", "s">>
Href_work == <<"/", "w", "o", "r", "k">>

(* String.prototype.startsWith *)
StartsWith(s, p) == Len(s) >= Len(p) /\ SubSeq(s, 1, Len(p)) = p

----------------------------------------------------------------------------
(* The page: its anchors and its overlay *)

Anchors ==
    { [id |-> 1, hasHref |-> TRUE, href |-> Href_about, target |-> "_self"],
      [id |-> 2, hasHref |-> TRUE, href |-> Href_x, target |-> "_self"],
      [id |-> 3, hasHref |-> TRUE, href |-> Href_y, target |-> "_self"],
      [id |-> 4, hasHref |-> TRUE, href |-> Href_empty, target |-> "_self"],
      [id |-> 5, hasHref |-> TRUE, href |-> Href_mail, target |-> "_self"],
      [id |-> 6, hasHref |-> TRUE, href |-> Href_section, target |-> "_self"],
      [id |-> 7, hasHref |-> TRUE, href |-> Href_example, target |-> "_self"],
      [id |-> 8, hasHref |-> TRUE, href |-> Href_httpdocs, target |-> "_self"],
      [id |-> 9, hasHref |-> TRUE, href |-> Href_work, target |-> "_blank"],
      [id |-> 10, hasHref |-> TRUE, href |-> Href_example, target |-> "_blank"],
      [id |-> 11, hasHref |-> FALSE, href |-> <<>>, target |-> "_self"] }

AnchorById(i) == CHOOSE a \in Anchors : a.id = i

(* The overlay's markup carries no 'active' class when the page is parsed. *)
InitialOverlayActive == FALSE

(* 'a[href]:not([target="_blank"])' *)
Matches_AnyHref(a) == a.hasHref

Matches(a) == a.hasHref /\ a.target # "_blank"

(* The test of the click listener. *)
IsInternal_SchemeSlashes(href) ==
    \/ StartsWith(href, Str_slash)
    \/ StartsWith(href, Str_dotslash)
    \/ StartsWith(href, Str_dotdotslash)
    \/ ~StartsWith(href, Str_http \o <<":", "/", "/">>)

IsInternal(href) ==
    \/ StartsWith(href, Str_slash)
    \/ StartsWith(href, Str_dotslash)
    \/ StartsWith(href, Str_dotdotslash)
    \/ ~StartsWith(href, Str_http)

(* What the browser does with a URL that does not replace the document: a  *)
(* fragment scrolls the page that is displayed, mailto: hands over to the   *)
(* mail program. Every other URL unloads the page once the new document    *)
(* commits.                                                                *)
StaysOnPage(href) == StartsWith(href, Str_hash) \/ StartsWith(href, Str_mailto)

(* The body of the click listener for the href it read: whether it called   *)
(* preventDefault, whether classList.add ran on the overlay, whether it     *)
(* reached setTimeout, whether it raised (classList of null).               *)
ClickHandler_NullSafe(href) ==
    IF ~IsInternal(href)
    THEN [prevented |-> FALSE, activate |-> FALSE, toggle |-> FALSE, schedule |-> FALSE, threw |-> FALSE]
    ELSE [prevented |-> TRUE, activate |-> overlayPresent, toggle |-> FALSE, schedule |-> TRUE, threw |-> FALSE]

ClickHandler_AddBeforePrevent(href) ==
    IF ~IsInternal(href)
    THEN [prevented |-> FALSE, activate |-> FALSE, toggle |-> FALSE, schedule |-> FALSE, threw |-> FALSE]
    ELSE IF ~overlayPresent
    THEN [prevented |-> FALSE, activate |-> FALSE, toggle |-> FALSE, schedule |-> FALSE, threw |-> TRUE]
    ELSE [prevented |-> TRUE, activate |-> TRUE, toggle |-> FALSE, schedule |-> TRUE, threw |-> FALSE]

ClickHandler_Toggle(href) ==
    IF ~IsInternal(href)
    THEN [prevented |-> FALSE, activate |-> FALSE, toggle |-> FALSE, schedule |-> FALSE, threw |-> FALSE]
    ELSE IF ~overlayPresent
    THEN [prevented |-> TRUE, activate |-> FALSE, toggle |-> FALSE, schedule |-> FALSE, threw |-> TRUE]
    ELSE [prevented |-> TRUE, activate |-> FALSE, toggle |-> TRUE, schedule |-> TRUE, threw |-> FALSE]

ClickHandler(href) ==
    IF ~IsInternal(href)
    THEN [prevented |-> FALSE, activate |-> FALSE, toggle |-> FALSE, schedule |-> FALSE, threw |-> FALSE]
    ELSE IF ~overlayPresent
    THEN [prevented |-> TRUE, activate |-> FALSE, toggle |-> FALSE, schedule |-> FALSE, threw |-> TRUE]
    ELSE [prevented |-> TRUE, activate |-> TRUE, toggle |-> FALSE, schedule |-> TRUE, threw |-> FALSE]

NoHandler == [prevented |-> FALSE, activate |-> FALSE, toggle |-> FALSE, schedule |-> FALSE, threw |-> FALSE]

(* setTimeout appends to the timer queue; nothing calls clearTimeout. *)
ScheduleTimer_Debounce(q, t) == <<t>>

ScheduleTimer(q, t) == Append(q, t)

(* The time a timer becomes runnable. *)
TimerDue_Immediate(t) == t.setAt

TimerDue(t) == t.setAt + Delay

(* The body of the load listener: classList.remove on the overlay. *)
LoadHandler_SkipWhileNavigating ==
    IF ~overlayPresent
    THEN [clear |-> FALSE, threw |-> TRUE]
    ELSE [clear |-> timers = <<>>, threw |-> FALSE]

LoadHandler ==
    IF ~overlayPresent
    THEN [clear |-> FALSE, threw |-> TRUE]
    ELSE [clear |-> TRUE, threw |-> FALSE]

(* The default action of a click the listeners did not cancel. *)
DefaultAction(a) ==
    IF ~a.hasHref THEN "none"
    ELSE IF a.target = "_blank" THEN "newtab"
    ELSE IF StaysOnPage(a.href) THEN "samepage"
    ELSE "navigate"

Event(type, anchor, prevented, threw, default) ==
    [type |-> type, anchor |-> anchor, prevented |-> prevented,
     threw |-> threw, default |-> default]

----------------------------------------------------------------------------
(* The proxy of analyze-webflow.js *)

(* Property keys read through the proxy. *)
OwnFunctions == {"ready", "env"}
OwnData == {"version"}
InheritedFunctions == {"toString", "hasOwnProperty", "constructor"}
AbsentKeys == {"missing"}
SymbolKeys == {"Symbol(Symbol.toPrimitive)"}
StringKeys == OwnFunctions \cup OwnData \cup InheritedFunctions \cup AbsentKeys
Keys == StringKeys \cup SymbolKeys
ArgTypes == {"number", "string"}

(* typeof target[prop] for the original Webflow object, a plain object. *)
TypeOfTarget(prop) ==
    IF prop \in OwnFunctions \cup InheritedFunctions THEN "function"
    ELSE IF prop \in OwnData THEN "string"
    ELSE "undefined"

(* What the original returns: a property read, or a call with one argument. *)
OriginalGet(prop) == <<"value", prop, TypeOfTarget(prop)>>
OriginalCall(prop, arg) == <<"result", prop, arg>>

(* usageData.functionCalls[prop] on the plain object {}: an own array, a    *)
(* member inherited from Object.prototype, or undefined.                    *)
LookupFunctionCalls(prop) ==
    IF prop \in DOMAIN functionCalls THEN "array"
    ELSE IF prop \in InheritedFunctions THEN "inherited"
    ELSE "undefined"

RECURSIVE SumLen(_, _)
SumLen(f, S) ==
    IF S = {} THEN 0
    ELSE LET k == CHOOSE k \in S : TRUE
         IN Len(f[k]) + SumLen(f, S \ {k})

(* Object.values(usageData.functionCalls).reduce(sum + calls.length, 0) *)
TotalFunctionCalls == SumLen(functionCalls, DOMAIN functionCalls)

(* Own functions of the original with no key in usageData.functionCalls. *)
UnusedFunctions == {f \in OwnFunctions : f \notin DOMAIN functionCalls}

NoFunctionCalls == [k \in {} |-> <<>>]

----------------------------------------------------------------------------

Init ==
    /\ phase = "loading"
    /\ overlayPresent \in BOOLEAN
    /\ overlayActive = (overlayPresent /\ InitialOverlayActive)
    /\ registered = {}
    /\ loadListener = FALSE
    /\ timers = <<>>
    /\ nextTimerId = 1
    /\ now = 0
    /\ navLog = <<>>
    /\ pendingNav = <<>>
    /\ committed = <<>>
    /\ errors = {}
    /\ lastEvent = [type |-> "none", anchor |-> 0, prevented |-> FALSE,
                    threw |-> FALSE, default |-> "none"]
    /\ propertyAccess = {}
    /\ functionCalls = NoFunctionCalls
    /\ callsMade = 0
    /\ lastProxy = [op |-> "none", prop |-> "", threw |-> FALSE, result |-> <<>>,
                    expected |-> <<>>]
    /\ webflowUsageData = [totalFunctionCalls |-> 0, unusedFunctions |-> {}]

(* document 'DOMContentLoaded': query the overlay and the anchors, add the  *)
(* click listeners and the load listener.                                  *)
DOMContentLoaded ==
    /\ phase = "loading"
    /\ phase' = "ready"
    /\ registered' = {a.id : a \in {b \in Anchors : Matches(b)}}
    /\ loadListener' = TRUE
    /\ lastEvent' = Event("DOMContentLoaded", 0, FALSE, FALSE, "none")
    /\ UNCHANGED <<overlayPresent, overlayActive, timers, nextTimerId, now, navLog,
                   pendingNav, committed, errors>>
    /\ UNCHANGED proxyVars

(* The user clicks anchor a: its listener runs if it has one, then the      *)
(* default action unless the listener cancelled it.                         *)
Click(a) ==
    /\ phase # "unloaded"
    /\ LET h == IF a.id \in registered THEN ClickHandler(a.href) ELSE NoHandler
           default == IF h.prevented THEN "none" ELSE DefaultAction(a)
       IN /\ h.schedule => nextTimerId <= MaxClicks
          /\ overlayActive' = IF h.activate THEN TRUE
                              ELSE IF h.toggle THEN ~overlayActive
                              ELSE overlayActive
          /\ timers' = IF h.schedule
                       THEN ScheduleTimer(timers, [id |-> nextTimerId, href |-> a.href,
                                                   setAt |-> now])
                       ELSE timers
          /\ nextTimerId' = IF h.schedule THEN nextTimerId + 1 ELSE nextTimerId
          /\ errors' = IF h.threw THEN errors \cup {"click"} ELSE errors
          /\ pendingNav' = IF default = "navigate" THEN <<a.href>> ELSE pendingNav
          /\ lastEvent' = Event("click", a.id, h.prevented, h.threw, default)
    /\ UNCHANGED <<phase, overlayPresent, registered, loadListener, now, navLog, committed>>
    /\ UNCHANGED proxyVars

(* window 'load'. *)
LoadEvent ==
    /\ phase = "ready"
    /\ loadListener
    /\ overlayActive' = IF LoadHandler.clear THEN FALSE ELSE overlayActive
    /\ errors' = IF LoadHandler.threw THEN errors \cup {"load"} ELSE errors
    /\ lastEvent' = Event("load", 0, FALSE, LoadHandler.threw, "none")
    /\ UNCHANGED <<phase, overlayPresent, registered, loadListener, timers, nextTimerId,
                   now, navLog, pendingNav, committed>>
    /\ UNCHANGED proxyVars

(* The oldest pending timer runs: window.location.href = href. *)
TimerFire ==
    /\ phase = "ready"
    /\ timers # <<>>
    /\ now >= TimerDue(Head(timers))
    /\ LET t == Head(timers)
       IN /\ navLog' = Append(navLog, [id |-> t.id, href |-> t.href, setAt |-> t.setAt])
          /\ pendingNav' = IF StaysOnPage(t.href) THEN pendingNav ELSE <<t.href>>
          /\ lastEvent' = Event("timer", 0, FALSE, FALSE, "none")
    /\ timers' = Tail(timers)
    /\ UNCHANGED <<phase, overlayPresent, overlayActive, registered, loadListener,
                   nextTimerId, now, committed, errors>>
    /\ UNCHANGED proxyVars

(* The navigation in flight commits: the page and its timers are gone. *)
Unload ==
    /\ phase # "unloaded"
    /\ pendingNav # <<>>
    /\ phase' = "unloaded"
    /\ committed' = pendingNav
    /\ pendingNav' = <<>>
    /\ timers' = <<>>
    /\ lastEvent' = Event("unload", 0, FALSE, FALSE, "none")
    /\ UNCHANGED <<overlayPresent, overlayActive, registered, loadListener, nextTimerId,
                   now, navLog, errors>>
    /\ UNCHANGED proxyVars

Tick ==
    /\ phase # "unloaded"
    /\ now + TickStep <= MaxTime
    /\ now' = now + TickStep
    /\ UNCHANGED <<phase, overlayPresent, overlayActive, registered, loadListener, timers,
                   nextTimerId, navLog, pendingNav, committed, errors, lastEvent>>
    /\ UNCHANGED proxyVars

Next ==
    \/ DOMContentLoaded
    \/ \E a \in Anchors : Click(a)
    \/ LoadEvent
    \/ TimerFire
    \/ Unload
    \/ Tick

Spec == Init /\ [][Next]_vars

----------------------------------------------------------------------------
(* Operations on window.Webflow, the proxy *)

ReadyStates == {"loading", "complete"}

(* The get trap up to its return: the template literal of its console.log   *)
(* raises a TypeError for a symbol key, before anything is recorded.        *)
GetTrapThrows(prop) == prop \in SymbolKeys

(* Reading a property of the proxy without calling it. *)
ProxyGet(prop) ==
    /\ propertyAccess' = IF GetTrapThrows(prop) THEN propertyAccess
                         ELSE propertyAccess \cup {prop}
    /\ lastProxy' = [op |-> "get", prop |-> prop, threw |-> GetTrapThrows(prop),
                     result |-> IF GetTrapThrows(prop) THEN <<>>
                                ELSE IF TypeOfTarget(prop) = "function"
                                THEN <<"wrapper", prop>>
                                ELSE OriginalGet(prop),
                     expected |-> OriginalGet(prop)]
    /\ UNCHANGED <<functionCalls, callsMade, webflowUsageData>>
    /\ UNCHANGED pageVars

(* window.Webflow[prop](arg): the get trap, then the wrapper it returned.   *)
ProxyCall(prop, argType, readyState) ==
    /\ TypeOfTarget(prop) = "function"
    /\ callsMade < MaxCalls
    /\ callsMade' = callsMade + 1
    /\ propertyAccess' = propertyAccess \cup {prop}
    /\ LET record == [argTypes |-> <<argType>>, pagePhase |-> readyState]
           found == LookupFunctionCalls(prop)
       IN /\ functionCalls' =
                 IF found = "undefined"
                 THEN [k \in DOMAIN functionCalls \cup {prop} |->
                          IF k = prop THEN <<record>> ELSE functionCalls[k]]
                 ELSE IF found = "array"
                 THEN [functionCalls EXCEPT ![prop] = Append(@, record)]
                 ELSE functionCalls
          /\ lastProxy' = [op |-> "call", prop |-> prop, threw |-> found = "inherited",
                           result |-> IF found = "inherited" THEN <<>>
                                      ELSE OriginalCall(prop, argType),
                           expected |-> OriginalCall(prop, argType)]
    /\ UNCHANGED webflowUsageData
    /\ UNCHANGED pageVars

(* printUsageReport: the summary it exports. *)
PrintUsageReport ==
    /\ webflowUsageData' = [totalFunctionCalls |-> TotalFunctionCalls,
                            unusedFunctions |-> UnusedFunctions]
    /\ lastProxy' = [op |-> "report", prop |-> "", threw |-> FALSE, result |-> <<>>,
                     expected |-> <<>>]
    /\ UNCHANGED <<propertyAccess, functionCalls, callsMade>>
    /\ UNCHANGED pageVars

NextProxy ==
    \/ \E prop \in Keys : ProxyGet(prop)
    \/ \E prop \in Keys, argType \in ArgTypes, readyState \in ReadyStates :
           ProxyCall(prop, argType, readyState)
    \/ PrintUsageReport

SpecProxy == Init /\ [][NextProxy]_vars

----------------------------------------------------------------------------
(* Properties of the transition controller *)

Intercepted(a) == a.id \in registered /\ ~StartsWith(a.href, Str_http)

(* The step is a click on anchor a. *)
Clicked(a) == lastEvent'.type = "click" /\ lastEvent'.anchor = a.id /\ Click(a)

(* C1: a click on a registered anchor whose href does not begin with "http" *)
(* (overlay element present) cancels the default action, leaves the overlay *)
(* active when the listener returns, and schedules exactly one timer        *)
(* carrying that href; window.location.href is assigned only by the oldest  *)
(* pending timer, with that timer's href, and not before 500 ms have passed *)
(* since its click.                                                         *)
C1_InternalClickDelaysNavigation ==
    /\ [][\A a \in Anchors :
            (overlayPresent /\ Clicked(a) /\ Intercepted(a))
               => /\ lastEvent'.prevented
                  /\ lastEvent'.default = "none"
                  /\ overlayActive'
                  /\ timers' = Append(timers, [id |-> nextTimerId, href |-> a.href,
                                               setAt |-> now])
                  /\ UNCHANGED <<navLog, pendingNav, committed>>]_vars
    /\ [][navLog' # navLog
            => /\ timers # <<>>
               /\ now >= Head(timers).setAt + Delay
               /\ navLog' = Append(navLog, [id |-> Head(timers).id,
                                            href |-> Head(timers).href,
                                            setAt |-> Head(timers).setAt])
               /\ timers' = Tail(timers)]_vars

C1_Witness ==
    /\ overlayPresent
    /\ \E i \in 1..Len(navLog) : navLog[i].href = Href_mail
    /\ \E i \in 1..Len(navLog) : navLog[i].href = Href_about

(* C2: a click on an anchor whose href begins with "http" leaves the        *)
(* overlay marker and the timers as they were and does not cancel the       *)
(* default action, which starts the navigation in the same step.            *)
C2_ExternalClickUntouched ==
    [][\A a \in Anchors :
         (a.hasHref /\ Clicked(a) /\ StartsWith(a.href, Str_http))
            => /\ UNCHANGED <<overlayActive, timers, nextTimerId, navLog, errors>>
               /\ ~lastEvent'.prevented
               /\ lastEvent'.default = DefaultAction(a)
               /\ (a.target # "_blank" => pendingNav' = <<a.href>>)]_vars

C2_Witness ==
    /\ phase = "ready"
    /\ lastEvent.type = "click"
    /\ lastEvent.anchor \in registered
    /\ AnchorById(lastEvent.anchor).href = Href_example
    /\ pendingNav = <<Href_example>>
    /\ overlayPresent

(* C3: no anchor with target="_blank" carries the click listener, and a     *)
(* click on one performs the default action, leaves the overlay marker as   *)
(* it was and schedules no timer, whatever its href.                        *)
C3_BlankTargetExempt ==
    /\ [](\A a \in Anchors : a.target = "_blank" => a.id \notin registered)
    /\ [][\A a \in Anchors :
            (a.target = "_blank" /\ Clicked(a))
               => /\ ~lastEvent'.prevented
                  /\ lastEvent'.default = "newtab"
                  /\ UNCHANGED <<overlayActive, timers, nextTimerId, navLog, pendingNav>>]_vars

C3_Witness ==
    /\ phase = "ready"
    /\ overlayPresent
    /\ lastEvent.type = "click"
    /\ AnchorById(lastEvent.anchor).target = "_blank"
    /\ AnchorById(lastEvent.anchor).href = Href_work

(* C4: right after a load event on a page with the overlay element, the     *)
(* overlay does not carry the 'active' marker, pending timers or not.       *)
C4_LoadClearsOverlay ==
    (lastEvent.type = "load" /\ overlayPresent) => ~overlayActive

C4_Witness ==
    /\ lastEvent.type = "load"
    /\ overlayPresent
    /\ timers # <<>>
    /\ ~overlayActive

(* C5 as stated: with the overlay element present nothing throws, and the   *)
(* overlay is active from the first intercepted click until the first       *)
(* scheduled navigation fires, under every interleaving of clicks and load  *)
(* events.                                                                  *)
C5_Original ==
    overlayPresent =>
        /\ errors = {}
        /\ (phase = "ready" /\ timers # <<>> /\ navLog = <<>>) => overlayActive

(* C5 amended: with the overlay element present no listener throws; every   *)
(* intercepted click leaves the overlay active, however many came before;   *)
(* and the marker is removed by nothing but a load event.                   *)
C5_Amended ==
    /\ [](overlayPresent => errors = {})
    /\ [][\A a \in Anchors :
            (overlayPresent /\ Clicked(a) /\ Intercepted(a)) => overlayActive']_vars
    /\ [][(overlayActive /\ ~overlayActive') => LoadEvent]_vars

C5_Witness ==
    /\ overlayPresent
    /\ Len(timers) = 2
    /\ navLog = <<>>
    /\ lastEvent.type = "load"
    /\ ~overlayActive

(* C6 as stated: of two intercepted clicks less than 500 ms apart only the  *)
(* earlier one's timer ever assigns window.location.href.                   *)
C6_Original ==
    \A i, j \in 1..Len(navLog) :
        i < j => navLog[j].setAt - navLog[i].setAt >= Delay

(* C6 amended: every intercepted click schedules its own timer and none is  *)
(* cancelled while the page lives; the timers run in click order, so the    *)
(* first assignment of window.location.href carries the earliest click's    *)
(* href, and each later timer that runs before the page is unloaded         *)
(* assigns it again.                                                        *)
C6_Amended ==
    /\ \A i \in 1..Len(navLog) : navLog[i].id = i
    /\ phase # "unloaded" =>
          /\ Len(navLog) + Len(timers) = nextTimerId - 1
          /\ \A i \in 1..Len(timers) : timers[i].id = Len(navLog) + i
          /\ \A i \in 1..Len(timers) : timers[i].setAt <= now

C6_Witness ==
    /\ Len(navLog) = 2
    /\ navLog[2].setAt - navLog[1].setAt < Delay
    /\ navLog[1].href # navLog[2].href
    /\ ~StaysOnPage(navLog[1].href)

(* C7 as stated: on a page that is displayed and is not being replaced, the *)
(* overlay is active only while the timer of an intercepted click is still  *)
(* pending (a load event since that click would have removed the marker).   *)
C7_Original ==
    (phase = "ready" /\ pendingNav = <<>> /\ overlayActive) => timers # <<>>

(* C8: without the overlay element the overlay never becomes active, no     *)
(* timer is ever scheduled, and every intercepted click and every load      *)
(* event ends in an uncaught error of its listener.                         *)
C8_MissingOverlayFails ==
    ~overlayPresent =>
        /\ ~overlayActive
        /\ timers = <<>>
        /\ nextTimerId = 1
        /\ (lastEvent.type = "click" /\ Intercepted(AnchorById(lastEvent.anchor)))
              => (lastEvent.threw /\ "click" \in errors)
        /\ lastEvent.type = "load" => (lastEvent.threw /\ "load" \in errors)

C8_Witness ==
    /\ ~overlayPresent
    /\ errors = {"click", "load"}
    /\ lastEvent.type = "load"

(* C10: without the overlay element, a click on a registered anchor whose   *)
(* href does not begin with "http" has cancelled the default action when    *)
(* the listener throws and starts no navigation of either kind; a click on  *)
(* a registered anchor whose href begins with "http" navigates natively.    *)
C10_MissingOverlayDeadLinks ==
    /\ [](~overlayPresent => navLog = <<>>)
    /\ [][\A a \in Anchors :
            (~overlayPresent /\ a.id \in registered /\ Clicked(a))
               => IF ~StartsWith(a.href, Str_http)
                  THEN /\ lastEvent'.prevented
                       /\ lastEvent'.threw
                       /\ lastEvent'.default = "none"
                       /\ UNCHANGED <<phase, timers, navLog, pendingNav, committed>>
                  ELSE /\ ~lastEvent'.prevented
                       /\ lastEvent'.default = "navigate"
                       /\ pendingNav' = <<a.href>>]_vars

C10_Witness ==
    /\ ~overlayPresent
    /\ phase = "ready"
    /\ lastEvent.type = "click"
    /\ Intercepted(AnchorById(lastEvent.anchor))
    /\ lastEvent.prevented
    /\ pendingNav = <<>>
    /\ now >= Delay

----------------------------------------------------------------------------
(* Properties of the proxy *)

(* C9 as stated: no read and no call through the proxy throws, a read of a  *)
(* property that is not a function yields the original's value, a call      *)
(* returns what the original returns, and the recorded calls add up to the  *)
(* calls made.                                                              *)
C9_Original ==
    /\ ~lastProxy.threw
    /\ (lastProxy.op = "get" /\ TypeOfTarget(lastProxy.prop) # "function")
          => lastProxy.result = lastProxy.expected
    /\ lastProxy.op = "call" => lastProxy.result = lastProxy.expected
    /\ TotalFunctionCalls = callsMade

====
